---- MODULE Spec2Model ----
(***************************************************************************)
(* Model of src/main.py: a Streamlit script that fetches listing pages,    *)
(* extracts the JSON-LD "headline" of every article, asks an LLM for the   *)
(* prefecture of each headline and keeps a per-day budget of estimated     *)
(* tokens in st.session_state.                                             *)
(*                                                                         *)
(* Text (URLs, reply text, labels, headlines) is a sequence of one-        *)
(* character strings, so that strip, split, int() and f-string formatting  *)
(* are computed character by character as the Python code computes them.   *)
(***************************************************************************)
EXTENDS Integers, Sequences, FiniteSets, TLC

(***************************************************************************)
(* Program constants.                                                      *)
(***************************************************************************)
DAILY_TOKEN_LIMIT == 15000

TOKENS_PER_HEADLINE == 120

\* The label every position starts with (the two-character Japanese word for
\* "unknown"), written here by the readings of its characters.
UNKNOWN == <<"fu", "mei">>

(***************************************************************************)
(* Bounds of the model.                                                    *)
(***************************************************************************)
\* Largest page count a run is started with (the UI offers 1..5).
MaxPageCount == 3

\* Number of clicks on the run button in one session.
MaxRuns == 2

\* Number of script blocks of a page given to the extractor on its own.
MaxBlocks == 3

\* Number of lines of a reply given to the reply parser on its own.
MaxReplyLines == 2

\* Number of headlines of a batch given to the reply parser on its own.
MaxHeadlines == 2

(***************************************************************************)
(* Python text helpers.                                                    *)
(***************************************************************************)
Whitespace == {" ", "\n", "\t", "\r"}

DigitChars == <<"0", "1", "2", "3", "4", "5", "6", "7", "8", "9">>

IsDigit(c) == \E d \in 1..10 : DigitChars[d] = c

DigitValue(c) == (CHOOSE d \in 1..10 : DigitChars[d] = c) - 1

\* str(n) / f"{n}" for an int n >= 0.
RECURSIVE ToDecimal(_)
ToDecimal(n) ==
    IF n < 10 THEN <<DigitChars[n + 1]>>
    ELSE ToDecimal(n \div 10) \o <<DigitChars[(n % 10) + 1]>>

\* str.strip(): drop leading and trailing whitespace.
RECURSIVE LStrip(_)
LStrip(s) ==
    IF s # <<>> /\ Head(s) \in Whitespace THEN LStrip(Tail(s)) ELSE s

RECURSIVE RStrip(_)
RStrip(s) ==
    IF s # <<>> /\ s[Len(s)] \in Whitespace
    THEN RStrip(SubSeq(s, 1, Len(s) - 1)) ELSE s

Strip(s) == RStrip(LStrip(s))

\* Position of the first occurrence of character c in s at or after i, 0
\* when there is none.
RECURSIVE IndexFrom(_, _, _)
IndexFrom(s, c, i) ==
    IF i > Len(s) THEN 0
    ELSE IF s[i] = c THEN i
    ELSE IndexFrom(s, c, i + 1)

\* Position of the first occurrence of character c in s, 0 when absent.
FirstIndex(s, c) == IndexFrom(s, c, 1)

\* str.split(c): always at least one part.
RECURSIVE Split(_, _)
Split(s, c) ==
    LET i == FirstIndex(s, c) IN
    IF i = 0 THEN <<s>>
    ELSE <<SubSeq(s, 1, i - 1)>> \o Split(SubSeq(s, i + 1, Len(s)), c)

\* str.split(c, 1): at most one split, at the first occurrence of c.
SplitFirst(s, c) ==
    LET i == FirstIndex(s, c) IN
    IF i = 0 THEN <<s>>
    ELSE <<SubSeq(s, 1, i - 1), SubSeq(s, i + 1, Len(s))>>

\* "\n".join(lines)
RECURSIVE JoinLines(_)
JoinLines(ls) ==
    IF ls = <<>> THEN <<>>
    ELSE IF Len(ls) = 1 THEN ls[1]
    ELSE ls[1] \o <<"\n">> \o JoinLines(Tail(ls))

\* needle in haystack, for two str values.
Contains(hay, needle) ==
    \E i \in 0..(Len(hay) - Len(needle)) :
        SubSeq(hay, i + 1, i + Len(needle)) = needle

RECURSIVE DigitsValue(_)
DigitsValue(ds) ==
    IF ds = <<>> THEN 0
    ELSE 10 * DigitsValue(SubSeq(ds, 1, Len(ds) - 1)) + DigitValue(ds[Len(ds)])

\* int(s) for text over whitespace, signs, digits and other characters:
\* surrounding whitespace is dropped, one sign is allowed, and what is left
\* must be a non-empty run of digits; anything else raises ValueError.
PyInt(s) ==
    LET t == Strip(s)
        signed == t # <<>> /\ t[1] \in {"+", "-"}
        ds == IF signed THEN Tail(t) ELSE t
    IN  IF ds # <<>> /\ \A i \in 1..Len(ds) : IsDigit(ds[i])
        THEN [ok |-> TRUE,
              val |-> IF signed /\ t[1] = "-" THEN 0 - DigitsValue(ds)
                      ELSE DigitsValue(ds)]
        ELSE [ok |-> FALSE, val |-> 0]

(***************************************************************************)
(* Structured-Data Extractor: extract_headlines_with_beautifulsoup.        *)
(*                                                                         *)
(* A page is the sequence of its <script> elements in document order.      *)
(* Each element records its type attribute and what json.loads makes of    *)
(* its text:                                                               *)
(*   body "none"    script.string is None (no text, or several children)   *)
(*   body "invalid" the text is not JSON                                   *)
(*   body "object"  a dict; members are its keys, headline the value of    *)
(*                  the key "headline" when it has one                     *)
(*   body "array"   a list; members are its string elements                *)
(*   body "string"  a str; text is its characters                          *)
(*   body "number", "null"   an int/float, None                            *)
(***************************************************************************)
LD_JSON == "application/ld+json"

Script(type, body, members, headline, text) ==
    [type |-> type, body |-> body, members |-> members,
     headline |-> headline, text |-> text]

\* soup.find_all('script', type='application/ld+json'): document order.
FindAllScripts(page) == SelectSeq(page, LAMBDA b : b.type = LD_JSON)

HeadlineKey == <<"h", "e", "a", "d", "l", "i", "n", "e">>

\* What the try body does with one script: the exception it raises ("none"
\* when it raises nothing) and whether it appended data['headline'].
TryScript(b) ==
    CASE b.body = "none"    -> [exc |-> "TypeError", append |-> FALSE]
      [] b.body = "invalid" -> [exc |-> "JSONDecodeError", append |-> FALSE]
      [] b.body = "object"  ->
            [exc |-> "none", append |-> "headline" \in b.members]
      [] b.body = "array"   ->
            \* 'headline' in a list compares elements; a list cannot be
            \* subscripted by a str.
            IF "headline" \in b.members
            THEN [exc |-> "TypeError", append |-> FALSE]
            ELSE [exc |-> "none", append |-> FALSE]
      [] b.body = "string"  ->
            \* 'headline' in a str is a substring test; a str cannot be
            \* subscripted by a str.
            IF Contains(b.text, HeadlineKey)
            THEN [exc |-> "TypeError", append |-> FALSE]
            ELSE [exc |-> "none", append |-> FALSE]
      [] OTHER              -> [exc |-> "TypeError", append |-> FALSE]

\* Mutant: the handler names json.JSONDecodeError alone.
CaughtByExtractorJsonOnly == {"JSONDecodeError"}

\* except (json.JSONDecodeError, TypeError): continue
CaughtByExtractor == {"JSONDecodeError", "TypeError"}

\* One iteration of the loop over scripts: the list after it, and whether
\* an exception left the function.
ExtractStep(hs, b) ==
    LET r == TryScript(b) IN
    IF r.exc = "none"
    THEN [raised |-> FALSE,
          headlines |-> IF r.append THEN Append(hs, b.headline) ELSE hs]
    ELSE [raised |-> r.exc \notin CaughtByExtractor, headlines |-> hs]

RECURSIVE ExtractLoop(_, _, _)
ExtractLoop(hs, ss, i) ==
    IF i > Len(ss) THEN [raised |-> FALSE, headlines |-> hs]
    ELSE LET r == ExtractStep(hs, ss[i]) IN
         IF r.raised THEN r ELSE ExtractLoop(r.headlines, ss, i + 1)

\* The whole function on one page.
ExtractHeadlines(page) == ExtractLoop(<<>>, FindAllScripts(page), 1)

(***************************************************************************)
(* Budget Guard and Prefecture Classifier: extract_prefecture_with_llm.    *)
(***************************************************************************)
EstimatedTokens(hs) == Len(hs) * TOKENS_PER_HEADLINE

\* Mutant: a batch that fills the budget exactly is refused.
BudgetExceededOffByOne(used, est) == used + est >= DAILY_TOKEN_LIMIT

\* Mutant: the check looks at what is used and not at what is asked for.
BudgetExceededIgnoresEstimate(used, est) == used > DAILY_TOKEN_LIMIT

\* if daily_tokens[TODAY] + estimated_tokens > DAILY_TOKEN_LIMIT
BudgetExceeded(used, est) == used + est > DAILY_TOKEN_LIMIT

\* Mutant: the error is shown and st.stop() is not called, so the function
\* goes on to the model call.
BudgetStopMissing == "calling"

\* st.stop() after the budget error: the script run ends there.
BudgetStop == "halted"

\* Mutant: = written for +=.
CommitOverwrites(used, est) == est

\* st.session_state.daily_tokens[TODAY] += estimated_tokens
Commit(used, est) == used + est

\* Mutant: the list starts empty.
InitialLabelsEmpty(hs) == <<>>

\* prefectures = [UNKNOWN] * len(headlines)
InitialLabels(hs) == [i \in 1..Len(hs) |-> UNKNOWN]

\* Mutant: the label is taken as it stands after the comma.
LabelOfUntrimmed(parts) == parts[2]

\* pref = parts[1].strip()
LabelOf(parts) == Strip(parts[2])

\* Mutant: only the upper end of the range is tested.
InRangeNoLowerBound(idx, n) == idx < n

\* if 0 <= idx < len(headlines)
InRange(idx, n) == 0 <= idx /\ idx < n

\* list[idx] = v for a Python list: idx counts from 0, a negative idx counts
\* from the end, and an idx outside the list raises IndexError.
SetItem(list, idx, v) ==
    IF 0 <= idx /\ idx < Len(list)
    THEN [raised |-> FALSE, labels |-> [list EXCEPT ![idx + 1] = v]]
    ELSE IF idx < 0 /\ 0 - Len(list) <= idx
    THEN [raised |-> FALSE,
          labels |-> [list EXCEPT ![Len(list) + idx + 1] = v]]
    ELSE [raised |-> TRUE, labels |-> list]

\* response_text.strip().split('\n')
ReplyLines(text) == Split(Strip(text), "\n")

\* except ValueError: continue
CaughtByParser == {"ValueError"}

\* One iteration of the loop over reply lines, for n headlines: the labels
\* after it, and whether an exception left the function.
ApplyLine(prefs, raw, n) ==
    LET line == Strip(raw) IN
    IF FirstIndex(line, ",") = 0
    THEN [raised |-> FALSE, labels |-> prefs]
    ELSE LET parts == SplitFirst(line, ",")
             num == PyInt(Strip(parts[1]))
             idx == num.val - 1
             pref == LabelOf(parts)
         IN  IF ~num.ok
             THEN [raised |-> "ValueError" \notin CaughtByParser,
                   labels |-> prefs]
             ELSE IF InRange(idx, n)
             THEN SetItem(prefs, idx, pref)
             ELSE [raised |-> FALSE, labels |-> prefs]

RECURSIVE ParseLoop(_, _, _, _)
ParseLoop(prefs, ls, i, n) ==
    IF i > Len(ls) THEN [raised |-> FALSE, labels |-> prefs]
    ELSE LET r == ApplyLine(prefs, ls[i], n) IN
         IF r.raised THEN r ELSE ParseLoop(r.labels, ls, i + 1, n)

\* Lines 126-141 on one reply: the labels returned for headlines hs.
ParseReply(text, hs) ==
    ParseLoop(InitialLabels(hs), ReplyLines(text), 1, Len(hs))

(***************************************************************************)
(* Pagination Driver: the body of `if st.button(...)`.                      *)
(***************************************************************************)
\* Mutant: every page, the first too, carries its number.
PageUrlAlwaysNumbered(base, p) == base \o ToDecimal(p)

\* url = base_url if page == 1 else f"{base_url}{page}"
PageUrl(base, p) == IF p = 1 THEN base ELSE base \o ToDecimal(p)

\* Mutant: the new page's items are put in front.
ExtendPrepends(all, xs) == xs \o all

\* all_headlines.extend(headlines) / all_prefectures.extend(prefectures)
Extend(all, xs) == all \o xs

\* pd.DataFrame({...}); df.index += 1: one row per position, numbered from
\* 1. Columns of different lengths raise ValueError.
DataFrame(hs, ps) ==
    IF Len(hs) # Len(ps) THEN [raised |-> TRUE, rows |-> <<>>]
    ELSE [raised |-> FALSE,
          rows |-> [k \in 1..Len(hs) |->
                      [No |-> k, headline |-> hs[k], prefecture |-> ps[k]]]]

\* The usage banner: used, limit, remaining.
Banner(used) == <<used, DAILY_TOKEN_LIMIT, DAILY_TOKEN_LIMIT - used>>

(***************************************************************************)
(* Inputs the environment supplies.                                        *)
(***************************************************************************)
\* Text typed into the URL field; the empty text is the field's default.
BaseUrls == { <<>>, <<"u", "/">>, <<"u", "1">> }

Title(i) == <<"t">> \o ToDecimal(i)

Obj(title) == Script(LD_JSON, "object", {"@type", "headline"}, title, <<>>)

ObjNoHeadline == Script(LD_JSON, "object", {"@type"}, <<>>, <<>>)

InvalidJson == Script(LD_JSON, "invalid", {}, <<>>, <<>>)

NoString == Script(LD_JSON, "none", {}, <<>>, <<>>)

ArrayWithHeadline == Script(LD_JSON, "array", {"headline"}, <<>>, <<>>)

ArrayPlain == Script(LD_JSON, "array", {"x"}, <<>>, <<>>)

StringWithHeadline ==
    Script(LD_JSON, "string", {}, <<>>, <<"a", " ">> \o HeadlineKey)

NumberJson == Script(LD_JSON, "number", {}, <<>>, <<>>)

OtherScript ==
    Script("text/javascript", "object", {"headline"}, Title(9), <<>>)

\* The script elements a page given to the extractor on its own is made of.
SampleScripts ==
    { Obj(Title(1)), Obj(Title(2)), ObjNoHeadline, InvalidJson, NoString,
      ArrayWithHeadline, ArrayPlain, StringWithHeadline, NumberJson,
      OtherScript }

SeqsUpTo(S, n) == UNION { [1..k -> S] : k \in 0..n }

\* The largest batch two of which fit the daily limit together.
HalfBatch == DAILY_TOKEN_LIMIT \div (2 * TOKENS_PER_HEADLINE)

ArticlePage(n) == [i \in 1..n |-> Obj(Title(i))]

\* A page with two articles among scripts that yield nothing.
MixedPage ==
    << InvalidJson, Obj(Title(1)), ObjNoHeadline, OtherScript,
       StringWithHeadline, Obj(Title(2)), NoString >>

\* The page bodies a fetch of the driver can return.
PageBodies ==
    { <<>>, MixedPage, ArticlePage(HalfBatch), ArticlePage(HalfBatch + 1) }

Label(i) == <<"p">> \o ToDecimal(i)

\* A reply that answers the last and the first of n headlines, in that
\* order: "n,pn\n1,p1"
EndsReply(n) ==
    JoinLines(<< ToDecimal(n) \o <<",">> \o Label(n),
                 ToDecimal(1) \o <<",">> \o Label(1) >>)

\* "5,T\nfoo,bar\n2,O"
GarbledReply ==
    << "5", ",", "T", "\n", "f", "o", "o", ",", "b", "a", "r", "\n",
       "2", ",", "O" >>

\* The reply texts the model call of the driver can return for n headlines.
ReplyChoices(n) == { EndsReply(n), GarbledReply }

\* The lines a reply given to the parser on its own is made of: an index
\* part, a comma and a label part, or a line without a comma.
IndexParts ==
    { <<"0">>, <<"1">>, <<"2">>, <<"3">>, <<" ", "2">>, <<"-", "1">>,
      <<"x">>, <<>> }

LabelParts == { <<"a">>, <<" ", "b", " ">>, <<>>, <<"a", ",", "b">> }

SampleLines ==
    { i \o <<",">> \o l : i \in IndexParts, l \in LabelParts }
        \cup { <<>>, <<"x">>, <<" ", "1">> }

SampleReplies == { JoinLines(ls) : ls \in SeqsUpTo(SampleLines, MaxReplyLines) }

SampleHeadlines(n) == [i \in 1..n |-> Title(i)]

(***************************************************************************)
(* State.                                                                  *)
(***************************************************************************)
VARIABLES
    pc,                \* where the script is
    has_api_key,       \* whether OPENAI_API_KEY is set
    daily_tokens,      \* st.session_state.daily_tokens[TODAY]
    runs,              \* clicks on the run button so far
    base_url,          \* the URL field
    page_count,        \* the page count field
    page,              \* loop variable of the page loop
    fetched,           \* URLs given to requests.get in this run, in order
    html,              \* response.text of the last fetch
    scripts,           \* extractor: result of find_all
    script_i,          \* extractor: position of the loop over scripts
    headlines,         \* headlines of the current page
    estimated_tokens,  \* the estimate computed on entry to the classifier
    calls,             \* model calls issued in this run
    budget_error,      \* whether the budget error message is shown
    response_text,     \* parser: the reply text
    lines,             \* parser: the lines of the reply
    line_i,            \* parser: position of the loop over lines
    prefectures,       \* labels of the current page
    all_headlines,     \* accumulated headlines
    all_prefectures,   \* accumulated labels
    batches,           \* what the classifier returned in this run, per page
    df,                \* rows of the result table
    banner             \* the usage banner, <<>> while not shown

extractVars == <<scripts, script_i>>

parseVars == <<response_text, lines, line_i>>

runVars ==
    <<base_url, page_count, page, fetched, calls, budget_error,
      all_headlines, all_prefectures, batches, df, banner>>

vars ==
    <<pc, has_api_key, daily_tokens, runs, html, headlines, estimated_tokens,
      prefectures, extractVars, parseVars, runVars>>

\* The script has run to its end (or was stopped) and waits for a click.
\* Runs follow one another within one session and one date: a click while a
\* run is under way, and a change of TODAY, are outside the model.
Waiting ==
    { "idle", "no_key", "no_url", "halted", "fetch_failed", "extract_failed",
      "call_failed", "reply_failed", "table_failed", "completed" }

\* The session state after the first script run, and cleared locals.
Fresh ==
    /\ daily_tokens = 0
    /\ runs = 0
    /\ base_url = <<>>
    /\ page_count = 1
    /\ page = 0
    /\ fetched = <<>>
    /\ scripts = <<>>
    /\ script_i = 0
    /\ estimated_tokens = 0
    /\ calls = 0
    /\ budget_error = FALSE
    /\ lines = <<>>
    /\ line_i = 0
    /\ prefectures = <<>>
    /\ all_headlines = <<>>
    /\ all_prefectures = <<>>
    /\ batches = <<>>
    /\ df = <<>>
    /\ banner = <<>>

Init ==
    /\ pc = "idle"
    /\ has_api_key \in BOOLEAN
    /\ html = <<>>
    /\ headlines = <<>>
    /\ response_text = <<>>
    /\ Fresh

(***************************************************************************)
(* The script, run once per click on the run button.                       *)
(***************************************************************************)
\* Lines 150-155: without a credential every script run stops before the
\* button is looked at.
MissingCredential ==
    /\ pc \in Waiting
    /\ ~has_api_key
    /\ runs < MaxRuns
    /\ runs' = runs + 1
    /\ pc' = "no_key"
    /\ UNCHANGED <<has_api_key, daily_tokens, html, headlines,
                   estimated_tokens, prefectures, extractVars, parseVars,
                   runVars>>

\* Lines 159-162: the button is clicked while the URL field is empty.
ClickRunNoUrl ==
    /\ pc \in Waiting
    /\ has_api_key
    /\ runs < MaxRuns
    /\ runs' = runs + 1
    /\ \E n \in 1..MaxPageCount : page_count' = n
    /\ base_url' = <<>>
    /\ pc' = "no_url"
    /\ page' = 0
    /\ fetched' = <<>>
    /\ calls' = 0
    /\ budget_error' = FALSE
    /\ html' = <<>>
    /\ headlines' = <<>>
    /\ prefectures' = <<>>
    /\ all_headlines' = <<>>
    /\ all_prefectures' = <<>>
    /\ batches' = <<>>
    /\ df' = <<>>
    /\ banner' = <<>>
    /\ UNCHANGED <<has_api_key, daily_tokens, estimated_tokens, extractVars,
                   parseVars>>

\* Lines 159-169: the button is clicked with a URL; the page loop starts.
ClickRun ==
    /\ pc \in Waiting
    /\ has_api_key
    /\ runs < MaxRuns
    /\ runs' = runs + 1
    /\ \E b \in BaseUrls \ {<<>>} : base_url' = b
    /\ \E n \in 1..MaxPageCount : page_count' = n
    /\ all_headlines' = <<>>
    /\ all_prefectures' = <<>>
    /\ page' = 1
    /\ pc' = "fetch"
    /\ fetched' = <<>>
    /\ calls' = 0
    /\ budget_error' = FALSE
    /\ html' = <<>>
    /\ headlines' = <<>>
    /\ prefectures' = <<>>
    /\ batches' = <<>>
    /\ df' = <<>>
    /\ banner' = <<>>
    /\ UNCHANGED <<has_api_key, daily_tokens, estimated_tokens, extractVars,
                   parseVars>>

\* Lines 170-178: the page's URL is built and fetched, and the headlines of
\* the body are extracted.
FetchPage ==
    /\ pc = "fetch"
    /\ fetched' = Append(fetched, PageUrl(base_url, page))
    /\ \E body \in PageBodies :
         LET r == ExtractHeadlines(body) IN
         /\ html' = body
         /\ IF r.raised
            THEN pc' = "extract_failed" /\ UNCHANGED headlines
            ELSE pc' = "classify" /\ headlines' = r.headlines
    /\ UNCHANGED <<has_api_key, daily_tokens, runs, estimated_tokens,
                   prefectures, extractVars, parseVars, base_url, page_count,
                   page, calls, budget_error, all_headlines, all_prefectures,
                   batches, df, banner>>

\* Line 177: requests.get raises; nothing handles it.
FetchFails ==
    /\ pc = "fetch"
    /\ fetched' = Append(fetched, PageUrl(base_url, page))
    /\ pc' = "fetch_failed"
    /\ UNCHANGED <<has_api_key, daily_tokens, runs, html, headlines,
                   estimated_tokens, prefectures, extractVars, parseVars,
                   base_url, page_count, page, calls, budget_error,
                   all_headlines, all_prefectures, batches, df, banner>>

\* Lines 82-120: the estimate, the budget check, and either the stop or the
\* model call being issued.
BudgetCheck ==
    /\ pc = "classify"
    /\ estimated_tokens' = EstimatedTokens(headlines)
    /\ IF BudgetExceeded(daily_tokens, estimated_tokens')
       THEN /\ budget_error' = TRUE
            /\ pc' = BudgetStop
            /\ calls' = calls
       ELSE /\ budget_error' = budget_error
            /\ pc' = "calling"
            /\ calls' = calls + 1
    /\ UNCHANGED <<has_api_key, daily_tokens, runs, html, headlines,
                   prefectures, extractVars, parseVars, base_url, page_count,
                   page, fetched, all_headlines, all_prefectures, batches,
                   df, banner>>

\* Lines 114-141 and 180-186: the model call returns a reply; the estimate
\* is committed, the reply parsed, the results accumulated, and the loop
\* goes on to the next page or ends.
LLMReturn ==
    /\ pc = "calling"
    /\ daily_tokens' = Commit(daily_tokens, estimated_tokens)
    /\ \E reply \in ReplyChoices(Len(headlines)) :
         LET r == ParseReply(reply, headlines) IN
         IF r.raised
         THEN /\ pc' = "reply_failed"
              /\ UNCHANGED <<prefectures, all_headlines, all_prefectures,
                             batches, page>>
         ELSE /\ prefectures' = r.labels
              /\ all_headlines' = Extend(all_headlines, headlines)
              /\ all_prefectures' = Extend(all_prefectures, r.labels)
              /\ batches' = Append(batches, [headlines |-> headlines,
                                             prefectures |-> r.labels])
              /\ IF page = page_count
                 THEN pc' = "render" /\ page' = page
                 ELSE pc' = "fetch" /\ page' = page + 1
    /\ UNCHANGED <<has_api_key, runs, html, headlines, estimated_tokens,
                   extractVars, parseVars, base_url, page_count, fetched,
                   calls, budget_error, df, banner>>

\* Lines 114-126: the model call returns a message without text; the
\* estimate is committed and None.strip() raises.
LLMReturnsNoText ==
    /\ pc = "calling"
    /\ daily_tokens' = Commit(daily_tokens, estimated_tokens)
    /\ pc' = "reply_failed"
    /\ UNCHANGED <<has_api_key, runs, html, headlines, estimated_tokens,
                   prefectures, extractVars, parseVars, runVars>>

\* Line 114: the model call raises; nothing handles it.
LLMFails ==
    /\ pc = "calling"
    /\ pc' = "call_failed"
    /\ UNCHANGED <<has_api_key, daily_tokens, runs, html, headlines,
                   estimated_tokens, prefectures, extractVars, parseVars,
                   runVars>>

\* Lines 188-212: the result table, the CSV and the usage banner.
Render ==
    /\ pc = "render"
    /\ LET t == DataFrame(all_headlines, all_prefectures) IN
       IF t.raised
       THEN pc' = "table_failed" /\ UNCHANGED <<df, banner>>
       ELSE /\ df' = t.rows
            /\ banner' = Banner(daily_tokens)
            /\ pc' = "completed"
    /\ UNCHANGED <<has_api_key, daily_tokens, runs, html, headlines,
                   estimated_tokens, prefectures, extractVars, parseVars,
                   base_url, page_count, page, fetched, calls, budget_error,
                   all_headlines, all_prefectures, batches>>

Next ==
    \/ MissingCredential
    \/ ClickRunNoUrl
    \/ ClickRun
    \/ FetchPage
    \/ FetchFails
    \/ BudgetCheck
    \/ LLMReturn
    \/ LLMReturnsNoText
    \/ LLMFails
    \/ Render

Spec == Init /\ [][Next]_vars

(***************************************************************************)
(* The extractor on its own, one script per step, on any page of up to     *)
(* MaxBlocks sample scripts.                                               *)
(***************************************************************************)
InitExtract ==
    /\ pc = "x_start"
    /\ has_api_key = TRUE
    /\ html \in SeqsUpTo(SampleScripts, MaxBlocks)
    /\ headlines = <<>>
    /\ response_text = <<>>
    /\ Fresh

\* Lines 61-65
ExtractBegin ==
    /\ pc = "x_start"
    /\ headlines' = <<>>
    /\ scripts' = FindAllScripts(html)
    /\ script_i' = 1
    /\ pc' = "x_loop"
    /\ UNCHANGED <<has_api_key, daily_tokens, runs, html, estimated_tokens,
                   prefectures, parseVars, runVars>>

\* Lines 67-73: one iteration.
ExtractScript ==
    /\ pc = "x_loop"
    /\ script_i <= Len(scripts)
    /\ LET r == ExtractStep(headlines, scripts[script_i]) IN
       IF r.raised
       THEN pc' = "x_raised" /\ UNCHANGED <<headlines, script_i>>
       ELSE /\ headlines' = r.headlines
            /\ script_i' = script_i + 1
            /\ pc' = "x_loop"
    /\ UNCHANGED <<has_api_key, daily_tokens, runs, html, estimated_tokens,
                   prefectures, scripts, parseVars, runVars>>

\* Line 75
ExtractReturn ==
    /\ pc = "x_loop"
    /\ script_i > Len(scripts)
    /\ pc' = "x_returned"
    /\ UNCHANGED <<has_api_key, daily_tokens, runs, html, headlines,
                   estimated_tokens, prefectures, extractVars, parseVars,
                   runVars>>

NextExtract == ExtractBegin \/ ExtractScript \/ ExtractReturn

SpecExtract == InitExtract /\ [][NextExtract]_vars

(***************************************************************************)
(* The reply parser on its own, one line per step, on any reply of up to   *)
(* MaxReplyLines sample lines for up to MaxHeadlines headlines.            *)
(***************************************************************************)
InitParse ==
    /\ pc = "p_start"
    /\ has_api_key = TRUE
    /\ html = <<>>
    /\ headlines \in { SampleHeadlines(n) : n \in 0..MaxHeadlines }
    /\ response_text \in SampleReplies
    /\ Fresh

\* Lines 126-129
ParseBegin ==
    /\ pc = "p_start"
    /\ prefectures' = InitialLabels(headlines)
    /\ lines' = ReplyLines(response_text)
    /\ line_i' = 1
    /\ pc' = "p_loop"
    /\ UNCHANGED <<has_api_key, daily_tokens, runs, html, headlines,
                   estimated_tokens, extractVars, response_text, runVars>>

\* Lines 129-139: one iteration.
ParseLine ==
    /\ pc = "p_loop"
    /\ line_i <= Len(lines)
    /\ LET r == ApplyLine(prefectures, lines[line_i], Len(headlines)) IN
       IF r.raised
       THEN pc' = "p_raised" /\ UNCHANGED <<prefectures, line_i>>
       ELSE /\ prefectures' = r.labels
            /\ line_i' = line_i + 1
            /\ pc' = "p_loop"
    /\ UNCHANGED <<has_api_key, daily_tokens, runs, html, headlines,
                   estimated_tokens, extractVars, response_text, lines,
                   runVars>>

\* Line 141
ParseReturn ==
    /\ pc = "p_loop"
    /\ line_i > Len(lines)
    /\ pc' = "p_returned"
    /\ UNCHANGED <<has_api_key, daily_tokens, runs, html, headlines,
                   estimated_tokens, prefectures, extractVars, parseVars,
                   runVars>>

NextParse == ParseBegin \/ ParseLine \/ ParseReturn

SpecParse == InitParse /\ [][NextParse]_vars

(***************************************************************************)
(* Properties.                                                             *)
(***************************************************************************)

\* C1 - Budget gate: with usage U and a batch of `count` headlines, E =
\* count*120, the classifier goes on to the model call if and only if
\* U + E <= 15000; otherwise it halts the run and leaves the usage at U.
BudgetGate ==
    [][ pc = "classify" =>
          LET U == daily_tokens
              E == Len(headlines) * TOKENS_PER_HEADLINE
          IN  IF U + E <= DAILY_TOKEN_LIMIT
              THEN pc' = "calling" /\ calls' = calls + 1
              ELSE /\ pc' = "halted"
                   /\ calls' = calls
                   /\ daily_tokens' = U ]_vars

\* A batch was refused after an earlier batch had filled the budget exactly.
BudgetGateWitness ==
    /\ pc = "halted"
    /\ budget_error
    /\ daily_tokens = DAILY_TOKEN_LIMIT
    /\ Len(headlines) > 0

\* C2 - Label array invariant: whenever the classifier's parse returns, it
\* returns exactly one label per headline, positions 1..H, for every reply.
LabelArrayInvariant ==
    pc = "p_returned" =>
        /\ Len(prefectures) = Len(headlines)
        /\ DOMAIN prefectures = 1..Len(headlines)

\* The parse returned for two headlines after a line that addresses a third.
LabelArrayWitness ==
    /\ pc = "p_returned"
    /\ Len(headlines) = 2
    /\ Len(lines) = 2
    /\ lines[1] = <<"3", ",", "a">>
    /\ prefectures[2] # UNKNOWN

\* The parts of a reply line as the properties below name them.
HasComma(raw) == \E i \in 1..Len(Strip(raw)) : Strip(raw)[i] = ","

IndexPart(raw) == SplitFirst(Strip(raw), ",")[1]

LabelPart(raw) == SplitFirst(Strip(raw), ",")[2]

\* A valid `index,label` line for H headlines: a comma, and before it an
\* integer in 1..H.
ValidLine(raw, H) ==
    /\ HasComma(raw)
    /\ PyInt(IndexPart(raw)).ok
    /\ PyInt(IndexPart(raw)).val \in 1..H

Addresses(raw, H, p) == ValidLine(raw, H) /\ PyInt(IndexPart(raw)).val = p

\* The reply lines that address position p.
Addressing(p) ==
    { j \in 1..Len(lines) : Addresses(lines[j], Len(headlines), p) }

Last(S) == CHOOSE j \in S : \A k \in S : k <= j

\* C3 (as stated) - every position no valid line addresses holds "unknown",
\* and every position a valid line addresses holds that line's trimmed label.
DefaultAndMergeAsStated ==
    pc = "p_returned" =>
        \A p \in 1..Len(headlines) :
            /\ Addressing(p) = {} => prefectures[p] = UNKNOWN
            /\ \A j \in Addressing(p) :
                 prefectures[p] = Strip(LabelPart(lines[j]))

\* C3 (amended) - every position no valid line addresses holds "unknown",
\* and every position some valid line addresses holds the trimmed label of
\* the last such line; a reply without valid lines yields "unknown" only.
DefaultAndMerge ==
    pc = "p_returned" =>
        \A p \in 1..Len(headlines) :
            IF Addressing(p) = {}
            THEN prefectures[p] = UNKNOWN
            ELSE prefectures[p] = Strip(LabelPart(lines[Last(Addressing(p))]))

\* Two lines with different labels addressed position 1 and none position 2.
DefaultAndMergeWitness ==
    /\ pc = "p_returned"
    /\ Len(headlines) = 2
    /\ Addressing(1) = {1, 2}
    /\ Strip(LabelPart(lines[1])) # Strip(LabelPart(lines[2]))
    /\ prefectures[1] = Strip(LabelPart(lines[2]))
    /\ prefectures[2] = UNKNOWN

\* C4 - Out-of-range and malformed tolerance: a line without a comma, with a
\* non-integer index or with an index outside 1..H changes no label, raises
\* nothing and lets the loop go on; a valid line after it is applied.
LineTolerance ==
    /\ [](pc # "p_raised")
    /\ [][ (pc = "p_loop" /\ line_i <= Len(lines)) =>
             /\ pc' = "p_loop"
             /\ line_i' = line_i + 1
             /\ IF ValidLine(lines[line_i], Len(headlines))
                THEN prefectures' =
                       [prefectures EXCEPT
                          ![PyInt(IndexPart(lines[line_i])).val] =
                              Strip(LabelPart(lines[line_i]))]
                ELSE prefectures' = prefectures ]_vars

\* A line with index 0 was discarded and the valid line after it applied.
LineToleranceWitness ==
    /\ pc = "p_returned"
    /\ Len(headlines) = 2
    /\ Len(lines) = 2
    /\ HasComma(lines[1])
    /\ PyInt(IndexPart(lines[1])).val = 0
    /\ PyInt(IndexPart(lines[1])).ok
    /\ Addresses(lines[2], 2, 2)
    /\ prefectures = <<UNKNOWN, Strip(LabelPart(lines[2]))>>

\* Whether u is base followed by the decimal digits of K and nothing else.
IsNumbered(u, base, K) ==
    LET suffix == SubSeq(u, Len(base) + 1, Len(u)) IN
    /\ Len(u) > Len(base)
    /\ SubSeq(u, 1, Len(base)) = base
    /\ \A i \in 1..Len(suffix) : IsDigit(suffix[i])
    /\ suffix[1] # "0"
    /\ DigitsValue(suffix) = K

\* C5 - Pagination URL rule: the K-th fetch of a run is of page K, page 1
\* being the base URL and page K > 1 the base URL followed by the digits of
\* K; a run that reaches its end has fetched exactly pages 1..N, none twice.
PaginationRule ==
    /\ Len(fetched) <= page_count
    /\ \A K \in 1..Len(fetched) :
         IF K = 1 THEN fetched[K] = base_url
         ELSE IsNumbered(fetched[K], base_url, K)
    /\ \A i, j \in 1..Len(fetched) : fetched[i] = fetched[j] => i = j
    /\ pc \in {"render", "completed"} => Len(fetched) = page_count

\* A run of three pages over a base URL that ends in a digit has completed.
PaginationWitness ==
    /\ pc = "completed"
    /\ page_count = 3
    /\ base_url = <<"u", "1">>
    /\ fetched = << <<"u", "1">>, <<"u", "1", "2">>, <<"u", "1", "3">> >>

\* A JSON-LD script whose text is a JSON object with a "headline" key.
IsArticle(b) ==
    b.type = LD_JSON /\ b.body = "object" /\ "headline" \in b.members

ArticleTitles(doc) ==
    LET sel == SelectSeq(doc, IsArticle) IN
    [i \in 1..Len(sel) |-> sel[i].headline]

\* C6 - Extraction order and tolerance: the extractor returns the headline
\* of every JSON-LD object that has one, in document order and with
\* repetitions, and no other block makes it raise.
ExtractionOrder ==
    /\ pc # "x_raised"
    /\ pc = "x_returned" => headlines = ArticleTitles(html)

\* Invalid JSON, then an article, then a list that contains "headline".
ExtractionWitness ==
    /\ pc = "x_returned"
    /\ html = <<InvalidJson, Obj(Title(1)), ArrayWithHeadline>>
    /\ headlines = <<Title(1)>>

\* C7 - Budget-exceeded hard stop: once the guard refuses the batch of page
\* K the run is over: no model call for page K, no fetch after page K, no
\* further change of the usage, no result table, CSV or banner.
HardStop ==
    /\ [](budget_error =>
            /\ pc = "halted"
            /\ Len(fetched) = page
            /\ calls = page - 1
            /\ Len(batches) = page - 1
            /\ df = <<>>
            /\ banner = <<>>)
    /\ [][ (budget_error' /\ runs' = runs) =>
             UNCHANGED <<daily_tokens, fetched, calls, batches,
                         all_headlines, all_prefectures, df, banner>> ]_vars

\* The guard refused page 2 of a three-page run.
HardStopWitness ==
    /\ pc = "halted"
    /\ budget_error
    /\ page = 2
    /\ page_count = 3
    /\ Len(all_headlines) > 0

\* C8 - Check-call-commit: a batch that passes the check gets exactly one
\* model call; the usage grows only when that call has returned, once, by
\* len(headlines)*120; a failed fetch or call leaves it alone; it never
\* decreases.
CheckCallCommit ==
    /\ [](/\ pc \in {"fetch", "classify"} => calls = page - 1
          /\ pc = "calling" => calls = page)
    /\ [][ /\ (pc = "calling" /\ pc' \notin {"calling", "call_failed"}) =>
                daily_tokens' =
                    daily_tokens + Len(headlines) * TOKENS_PER_HEADLINE
           /\ daily_tokens' # daily_tokens =>
                pc = "calling" /\ pc' \notin {"calling", "call_failed"}
           /\ pc' \in {"call_failed", "fetch_failed"} =>
                daily_tokens' = daily_tokens
           /\ daily_tokens' >= daily_tokens ]_vars

\* The second model call of a run failed after the first was committed.
CheckCallCommitWitness ==
    /\ pc = "call_failed"
    /\ calls = 2
    /\ daily_tokens > 0
    /\ Len(headlines) > 0

RECURSIVE ConcatHeadlines(_)
ConcatHeadlines(bs) ==
    IF bs = <<>> THEN <<>>
    ELSE ConcatHeadlines(SubSeq(bs, 1, Len(bs) - 1)) \o bs[Len(bs)].headlines

RECURSIVE ConcatLabels(_)
ConcatLabels(bs) ==
    IF bs = <<>> THEN <<>>
    ELSE ConcatLabels(SubSeq(bs, 1, Len(bs) - 1)) \o bs[Len(bs)].prefectures

\* C9 - Result accumulation: between iterations the two accumulated lists
\* are equally long and are the pages' headlines and the labels returned
\* for them, in page order; the table of a completed run of N pages has one
\* row per headline, numbered from 1, pairing it with its label.
ResultAccumulation ==
    /\ Len(all_headlines) = Len(all_prefectures)
    /\ all_headlines = ConcatHeadlines(batches)
    /\ all_prefectures = ConcatLabels(batches)
    /\ \A i \in 1..Len(batches) :
         Len(batches[i].headlines) = Len(batches[i].prefectures)
    /\ pc = "completed" =>
         /\ Len(batches) = page_count
         /\ Len(df) = Len(ConcatHeadlines(batches))
         /\ \A k \in 1..Len(df) :
              /\ df[k].No = k
              /\ df[k].headline = ConcatHeadlines(batches)[k]
              /\ df[k].prefecture = ConcatLabels(batches)[k]

\* A completed run whose first page had two headlines and whose second had
\* more, with different labels on the two pages.
ResultAccumulationWitness ==
    /\ pc = "completed"
    /\ page_count = 2
    /\ Len(batches[1].headlines) = 2
    /\ Len(batches[2].headlines) > 2
    /\ batches[1].prefectures[1] # batches[2].prefectures[1]
    /\ df[3].headline = batches[2].headlines[1]

\* C10 - Daily cap: the usage of the day stays within 0..15000, and the
\* remaining budget of the banner is never negative.
DailyCap ==
    /\ 0 <= daily_tokens
    /\ daily_tokens <= DAILY_TOKEN_LIMIT
    /\ banner # <<>> =>
         /\ banner[3] = DAILY_TOKEN_LIMIT - daily_tokens
         /\ banner[3] >= 0

\* A second run completed with the whole budget used.
DailyCapWitness ==
    /\ pc = "completed"
    /\ runs = 2
    /\ daily_tokens = DAILY_TOKEN_LIMIT
    /\ banner = <<DAILY_TOKEN_LIMIT, DAILY_TOKEN_LIMIT, 0>>

====
